---- MODULE Spec2Model ----
(***************************************************************************)
(* delete_inactive_dns_aliases.py: one run of main() is a sequence of      *)
(* remote calls (two load-balancer inventories, the hosted-zone listing,   *)
(* the paginated record-set listing, one change request per marked         *)
(* record).  Every remote call either returns or raises; the model draws   *)
(* that outcome, and the responses, from small sets.                       *)
(*                                                                         *)
(* DNS names are sequences of characters, so that removesuffix(".") is     *)
(* modelled by what it does to the text.                                   *)
(***************************************************************************)
EXTENDS Integers, Sequences, FiniteSets

VARIABLES
    modernLBs,              \* elbv2 describe_load_balancers()['LoadBalancers']
    legacyLBs,              \* elb describe_load_balancers()['LoadBalancerDescriptions']
    hostedZones,            \* route53 list_hosted_zones()['HostedZones']
    zone,                   \* the record sets currently in the hosted zone main works on
    pc,                     \* main's position
    lb_map,                 \* main: lb_map
    zones,                  \* main: zones
    public_zone,            \* main: public_zone
    records,                \* main: records
    all_a_dns_records,      \* main: all_a_dns_records
    records_to_be_removed,  \* main: records_to_be_removed
    next_r,                 \* index of the delete loop in records_to_be_removed
    stdout,                 \* what the run has printed
    requests,               \* change_resource_record_sets calls issued in this run
    responses,              \* HTTPStatusCode of every change request that returned
    lbError,                \* which load-balancer query raised in this run
    zonesOutcome,           \* how list_hosted_zones ended in this run
    fetchCalls,             \* calls of get_dns_records in this run
    fetchFail,              \* page and kind of the failure of the record listing
    raisedAt,               \* the step from which an exception left main
    run,                    \* "first" or "second" run of the script
    firstRunClean,          \* no remote call failed in the first run
    zoneAtStart             \* the zone as it was when this run started

vars == <<modernLBs, legacyLBs, hostedZones, zone, pc, lb_map, zones, public_zone,
          records, all_a_dns_records, records_to_be_removed, next_r, stdout,
          requests, responses, lbError, zonesOutcome, fetchCalls, fetchFail,
          raisedAt, run, firstRunClean, zoneAtStart>>

world == <<modernLBs, legacyLBs, hostedZones>>

-----------------------------------------------------------------------------
(* Bounds of the model *)

MaxModern == 2

MaxLegacy == 1

MaxZones == 2

MaxRecords == 2

PageSize == 1

-----------------------------------------------------------------------------
(* Values *)

DOT == "."

NameA == <<"a">>

NameB == <<"b">>

LBNames == {NameA, NameB}

AliasTargets == {<<"a", DOT>>, <<"a", DOT, DOT>>, <<"b">>}

EmptyMap == <<>>

NoZone == [Id |-> 0, Name |-> 0, RecordCount |-> 0]

NoFailure == [page |-> 0, kind |-> "none"]

BoundedSeq(S, n) == UNION {[1..k -> S] : k \in 0..n}

ModernEntries ==
    {[DNSName |-> n, State |-> [Code |-> c], Type |-> "application",
      LoadBalancerArn |-> "arn"] : n \in LBNames, c \in {"active", "provisioning"}}

LegacyEntries == {[DNSName |-> n] : n \in LBNames}

ZoneEntry(i, private) ==
    [Id |-> i, Name |-> i, Config |-> [PrivateZone |-> private],
     ResourceRecordSetCount |-> 0]

HostedZoneListings ==
    UNION {{[i \in 1..k |-> ZoneEntry(i, f[i])] : f \in [1..k -> BOOLEAN]} : k \in 0..MaxZones}

\* The i-th record set of the zone is named i: record sets of a zone are distinct.
RecordSetsNamed(i) ==
    {[Name |-> i, Type |-> "A", AliasTarget |-> [DNSName |-> t]] : t \in AliasTargets}
    \cup {[Name |-> i, Type |-> "A", ResourceRecords |-> "ip"]}
    \cup {[Name |-> i, Type |-> "CNAME", AliasTarget |-> [DNSName |-> <<"a", DOT>>]]}
    \cup {[Name |-> i, Type |-> "CNAME", ResourceRecords |-> "host"]}

ZoneContents ==
    UNION {{z \in [1..k -> UNION {RecordSetsNamed(i) : i \in 1..k}] :
                \A i \in 1..k : z[i] \in RecordSetsNamed(i)} : k \in 0..MaxRecords}

Range(s) == {s[i] : i \in 1..Len(s)}

-----------------------------------------------------------------------------
(* list_loadbalancers *)

Put(m, k, v) == [x \in (DOMAIN m) \cup {k} |-> IF x = k THEN v ELSE m[x]]

\* a variant that keeps a load balancer whatever its state
IsActiveAnyState(lb) == TRUE

\* line 17: only load balancers whose state code is "active" are kept
IsActive(lb) == lb.State.Code = "active"

RECURSIVE ModernLoop(_, _)
\* lines 16-22
ModernLoop(m, lbs) ==
    IF lbs = <<>> THEN m
    ELSE LET lb == Head(lbs)
         IN ModernLoop(IF IsActive(lb)
                          THEN Put(m, lb.DNSName, [type |-> lb.Type,
                                                   arn |-> lb.LoadBalancerArn,
                                                   dns_name |-> lb.DNSName])
                          ELSE m,
                       Tail(lbs))

RECURSIVE LegacyLoop(_, _)
\* lines 25-29
LegacyLoop(m, lbs) ==
    IF lbs = <<>> THEN m
    ELSE LET lb == Head(lbs)
         IN LegacyLoop(Put(m, lb.DNSName, [type |-> "classic", dns_name |-> lb.DNSName]),
                       Tail(lbs))

\* failure: "none", "elbv2" (the first query raises) or "elb" (the second one raises,
\* after the loop over the first response has filled the map).  Any Exception is
\* caught at line 31 and the function returns {}.
list_loadbalancers(modern, legacy, failure) ==
    LET afterModern == IF failure = "elbv2" THEN EmptyMap ELSE ModernLoop(EmptyMap, modern)
        afterLegacy == LegacyLoop(afterModern, legacy)
    IN IF failure = "none" THEN afterLegacy ELSE EmptyMap

-----------------------------------------------------------------------------
(* get_public_hosted_zones *)

Returned(v) == [raised |-> FALSE, value |-> v]

Raised == [raised |-> TRUE, value |-> <<>>]

RECURSIVE AllZonesLoop(_, _)
\* a variant that keeps the private zones too
AllZonesLoop(acc, zs) ==
    IF zs = <<>> THEN acc
    ELSE LET z == Head(zs)
         IN AllZonesLoop(Append(acc, [Id |-> z.Id, Name |-> z.Name,
                                      RecordCount |-> z.ResourceRecordSetCount]),
                         Tail(zs))

RECURSIVE PublicZonesLoop(_, _)
\* lines 45-51
PublicZonesLoop(acc, zs) ==
    IF zs = <<>> THEN acc
    ELSE LET z == Head(zs)
         IN PublicZonesLoop(IF ~z.Config.PrivateZone
                               THEN Append(acc, [Id |-> z.Id, Name |-> z.Name,
                                                 RecordCount |-> z.ResourceRecordSetCount])
                               ELSE acc,
                            Tail(zs))

\* outcome: "ok", "ClientError" (caught at line 54, returns []) or "OtherError"
\* (an exception that is no ClientError: no handler, it leaves the function).
get_public_hosted_zones(listing, outcome) ==
    CASE outcome = "ok" -> Returned(PublicZonesLoop(<<>>, listing))
      [] outcome = "ClientError" -> Returned(<<>>)
      [] OTHER -> Raised

-----------------------------------------------------------------------------
(* get_dns_records *)

Min(a, b) == IF a < b THEN a ELSE b

NumPages(z) == IF Len(z) = 0 THEN 1 ELSE (Len(z) + PageSize - 1) \div PageSize

\* the paginator's pages of a zone: page p holds PageSize record sets, the last one
\* the rest; an empty zone is one empty page
Page(z, p) == SubSeq(z, (p - 1) * PageSize + 1, Min(p * PageSize, Len(z)))

RECURSIVE ExtendLoop(_, _, _, _)
\* lines 67-68: all_records after pages from..to have been added
ExtendLoop(acc, z, from, to) ==
    IF from > to THEN acc ELSE ExtendLoop(acc \o Page(z, from), z, from + 1, to)

\* a variant whose ClientError handler returns what was collected
get_dns_records_partial(z, failPage, kind) ==
    IF failPage = 0 THEN Returned(ExtendLoop(<<>>, z, 1, NumPages(z)))
    ELSE IF kind = "ClientError" THEN Returned(ExtendLoop(<<>>, z, 1, failPage - 1))
    ELSE Raised

\* lines 63-73.  failPage = 0: no page fails.  failPage = k >= 1: fetching page k
\* raises `kind`, after pages 1..k-1 were added to all_records.
get_dns_records(z, failPage, kind) ==
    LET all_records == ExtendLoop(<<>>, z, 1, IF failPage = 0 THEN NumPages(z) ELSE failPage - 1)
    IN IF failPage = 0 THEN Returned(all_records)
       ELSE IF kind = "ClientError" THEN Returned(<<>>)
       ELSE Raised

-----------------------------------------------------------------------------
(* main: the filter and the marking pass *)

\* str.removesuffix("."): one trailing "." is removed, if there is one
removesuffix(s) ==
    IF Len(s) >= 1 /\ s[Len(s)] = DOT THEN SubSeq(s, 1, Len(s) - 1) ELSE s

\* a variant without the filter on the record type
all_records_kept(rs) == rs

\* lines 104-106
filter_a_records(rs) == SelectSeq(rs, LAMBDA r : r.Type = "A")

RECURSIVE MarkLoop(_, _, _)
\* lines 109-114: r["AliasTarget"] raises KeyError on a record without that key
MarkLoop(lb, rs, acc) ==
    IF rs = <<>> THEN [raised |-> FALSE, value |-> acc]
    ELSE LET r == Head(rs)
         IN IF "AliasTarget" \notin DOMAIN r THEN [raised |-> TRUE, value |-> acc]
            ELSE LET dns_name == removesuffix(r.AliasTarget.DNSName)
                 IN MarkLoop(lb, Tail(rs),
                             IF dns_name \notin DOMAIN lb THEN Append(acc, r) ELSE acc)

\* lines 122-130
ChangeRequest(zoneId, r) ==
    [HostedZoneId |-> zoneId,
     ChangeBatch |-> [Changes |-> <<[Action |-> "DELETE", ResourceRecordSet |-> r]>>]]

\* what a DELETE change that succeeds does to the zone
DeleteFromZone(z, r) == SelectSeq(z, LAMBDA x : x # r)

-----------------------------------------------------------------------------
(* State *)

LBFailures == {"none", "elbv2", "elb"}

CallOutcomes == {"ok", "ClientError", "OtherError"}

ErrorKinds == {"ClientError", "OtherError"}

\* what a change request can end in: a response with a status code, or an exception
DeleteOutcomes == {"200", "500", "raise"}

\* the locals of main and the record of the run, before main's first line
FreshRun ==
    /\ pc = "lb"
    /\ lb_map = EmptyMap
    /\ zones = <<>>
    /\ public_zone = NoZone
    /\ records = <<>>
    /\ all_a_dns_records = <<>>
    /\ records_to_be_removed = <<>>
    /\ next_r = 1
    /\ stdout = <<>>
    /\ requests = <<>>
    /\ responses = <<>>
    /\ lbError = "none"
    /\ zonesOutcome = "none"
    /\ fetchCalls = 0
    /\ fetchFail = NoFailure
    /\ raisedAt = "none"

\* The account main runs against: a few load-balancer inventories, every listing of
\* up to MaxZones hosted zones, every zone of up to MaxRecords record sets.
Init ==
    /\ modernLBs \in {<<[DNSName |-> NameA, State |-> [Code |-> c], Type |-> "application",
                        LoadBalancerArn |-> "arn"]>> : c \in {"active", "provisioning"}}
    /\ legacyLBs \in {<<>>, <<[DNSName |-> NameB]>>}
    /\ hostedZones \in HostedZoneListings
    /\ zone \in ZoneContents
    /\ zoneAtStart = zone
    /\ run = "first"
    /\ firstRunClean = FALSE
    /\ FreshRun

\* Every pair of inventories of up to MaxModern and MaxLegacy load balancers, in an
\* account without hosted zones: the inputs of list_loadbalancers.
InitLB ==
    /\ modernLBs \in BoundedSeq(ModernEntries, MaxModern)
    /\ legacyLBs \in BoundedSeq(LegacyEntries, MaxLegacy)
    /\ hostedZones = <<>>
    /\ zone = <<>>
    /\ zoneAtStart = zone
    /\ run = "first"
    /\ firstRunClean = FALSE
    /\ FreshRun

-----------------------------------------------------------------------------
(* main, one action per remote call or pass *)

\* line 76
ListLoadBalancers ==
    /\ pc = "lb"
    /\ \E failure \in LBFailures :
        /\ lb_map' = list_loadbalancers(modernLBs, legacyLBs, failure)
        /\ lbError' = failure
        /\ stdout' = IF failure = "none" THEN stdout ELSE Append(stdout, <<"Error", 0>>)
    /\ pc' = "zones"
    /\ UNCHANGED <<world, zone, zones, public_zone, records, all_a_dns_records,
                   records_to_be_removed, next_r, requests, responses, zonesOutcome,
                   fetchCalls, fetchFail, raisedAt, run, firstRunClean, zoneAtStart>>

\* line 84
ListHostedZones ==
    /\ pc = "zones"
    /\ \E outcome \in CallOutcomes :
        LET res == get_public_hosted_zones(hostedZones, outcome)
        IN /\ zonesOutcome' = outcome
           /\ zones' = res.value
           /\ pc' = IF res.raised THEN "crashed" ELSE "gate"
           /\ raisedAt' = IF res.raised THEN "zones" ELSE raisedAt
           /\ stdout' = IF outcome = "ClientError"
                           THEN Append(stdout, <<"Error listing hosted zones", 0>>)
                           ELSE stdout
    /\ UNCHANGED <<world, zone, lb_map, public_zone, records, all_a_dns_records,
                   records_to_be_removed, next_r, requests, responses, lbError,
                   fetchCalls, fetchFail, run, firstRunClean, zoneAtStart>>

\* lines 86-97
ZoneGate ==
    /\ pc = "gate"
    /\ IF zones = <<>>
          THEN /\ stdout' = Append(stdout, <<"No public hosted zones found or error occurred.", 0>>)
               /\ pc' = "done"
               /\ UNCHANGED public_zone
          ELSE IF Len(zones) # 1
          THEN /\ stdout' = Append(stdout, <<"There is more than 1 public zone. Script will not do anything!", 0>>)
               /\ pc' = "done"
               /\ UNCHANGED public_zone
          ELSE /\ public_zone' = zones[1]
               /\ stdout' = Append(stdout, <<"Processing zone", zones[1].Id>>)
               /\ pc' = "fetch"
    /\ UNCHANGED <<world, zone, lb_map, zones, records, all_a_dns_records,
                   records_to_be_removed, next_r, requests, responses, lbError,
                   zonesOutcome, fetchCalls, fetchFail, raisedAt, run, firstRunClean,
                   zoneAtStart>>

\* lines 100-102
FetchRecords ==
    /\ pc = "fetch"
    /\ \E failPage \in 0..NumPages(zone) :
       \E kind \in IF failPage = 0 THEN {"none"} ELSE ErrorKinds :
        LET res == get_dns_records(zone, failPage, kind)
        IN /\ fetchFail' = [page |-> failPage, kind |-> kind]
           /\ records' = res.value
           /\ pc' = IF res.raised THEN "crashed" ELSE "mark"
           /\ raisedAt' = IF res.raised THEN "fetch" ELSE raisedAt
           /\ stdout' = IF res.raised THEN stdout
                        ELSE (IF kind = "ClientError"
                                 THEN Append(stdout, <<"Error getting records for zone", public_zone.Id>>)
                                 ELSE stdout)
                             \o <<<<"Total number of DNS records is", Len(res.value)>>>>
    /\ fetchCalls' = fetchCalls + 1
    /\ UNCHANGED <<world, zone, lb_map, zones, public_zone, all_a_dns_records,
                   records_to_be_removed, next_r, requests, responses, lbError,
                   zonesOutcome, run, firstRunClean, zoneAtStart>>

\* lines 104-119
MarkRecords ==
    /\ pc = "mark"
    /\ LET all_a == filter_a_records(records)
           res == MarkLoop(lb_map, all_a, <<>>)
       IN /\ all_a_dns_records' = all_a
          /\ records_to_be_removed' = res.value
          /\ pc' = IF res.raised THEN "crashed" ELSE "delete"
          /\ raisedAt' = IF res.raised THEN "mark" ELSE raisedAt
          /\ stdout' = IF res.raised THEN stdout
                       ELSE Append(stdout, <<"DNS records can be removed", Len(res.value)>>)
    /\ UNCHANGED <<world, zone, lb_map, zones, public_zone, records, next_r, requests,
                   responses, lbError, zonesOutcome, fetchCalls, fetchFail, run,
                   firstRunClean, zoneAtStart>>

\* lines 121-132, one iteration
DeleteRecord ==
    /\ pc = "delete"
    /\ next_r <= Len(records_to_be_removed)
    /\ LET r == records_to_be_removed[next_r]
       IN /\ requests' = Append(requests, ChangeRequest(public_zone.Id, r))
          /\ \E outcome \in DeleteOutcomes :
              CASE outcome = "200" ->
                     /\ zone' = DeleteFromZone(zone, r)
                     /\ responses' = Append(responses, 200)
                     /\ stdout' = Append(stdout, <<"Successfully removed DNS record", r.Name>>)
                     /\ next_r' = next_r + 1
                     /\ UNCHANGED <<pc, raisedAt>>
                [] outcome = "500" ->
                     /\ responses' = Append(responses, 500)
                     /\ next_r' = next_r + 1
                     /\ UNCHANGED <<zone, stdout, pc, raisedAt>>
                [] OTHER ->
                     /\ pc' = "crashed"
                     /\ raisedAt' = "delete"
                     /\ UNCHANGED <<zone, responses, stdout, next_r>>
    /\ UNCHANGED <<world, lb_map, zones, public_zone, records, all_a_dns_records,
                   records_to_be_removed, lbError, zonesOutcome, fetchCalls, fetchFail,
                   run, firstRunClean, zoneAtStart>>

\* the loop of line 121 is exhausted: main returns
Return ==
    /\ pc = "delete"
    /\ next_r > Len(records_to_be_removed)
    /\ pc' = "done"
    /\ UNCHANGED <<world, zone, lb_map, zones, public_zone, records, all_a_dns_records,
                   records_to_be_removed, next_r, stdout, requests, responses, lbError,
                   zonesOutcome, fetchCalls, fetchFail, raisedAt, run, firstRunClean,
                   zoneAtStart>>

\* a remote call of this run failed: it raised, or a change request came back
\* with a status other than 200
CallFailed ==
    \/ lbError # "none"
    \/ zonesOutcome \in ErrorKinds
    \/ fetchFail.page # 0
    \/ raisedAt = "delete"
    \/ \E i \in 1..Len(responses) : responses[i] # 200

\* lines 134-135, a second time: the script is started again on the same account
Rerun ==
    /\ pc \in {"done", "crashed"}
    /\ run = "first"
    /\ run' = "second"
    /\ firstRunClean' = ~CallFailed
    /\ zoneAtStart' = zone
    /\ pc' = "lb"
    /\ lb_map' = EmptyMap
    /\ zones' = <<>>
    /\ public_zone' = NoZone
    /\ records' = <<>>
    /\ all_a_dns_records' = <<>>
    /\ records_to_be_removed' = <<>>
    /\ next_r' = 1
    /\ stdout' = <<>>
    /\ requests' = <<>>
    /\ responses' = <<>>
    /\ lbError' = "none"
    /\ zonesOutcome' = "none"
    /\ fetchCalls' = 0
    /\ fetchFail' = NoFailure
    /\ raisedAt' = "none"
    /\ UNCHANGED <<world, zone>>

Next ==
    \/ ListLoadBalancers
    \/ ListHostedZones
    \/ ZoneGate
    \/ FetchRecords
    \/ MarkRecords
    \/ DeleteRecord
    \/ Return
    \/ Rerun

Spec == Init /\ [][Next]_vars

NextLB == ListLoadBalancers

SpecLB == InitLB /\ [][NextLB]_vars

-----------------------------------------------------------------------------
(* Vocabulary of the properties, stated on the account and on what main did *)

HasAlias(r) == "AliasTarget" \in DOMAIN r

\* a name without one trailing "."
StripOneDot(s) == IF s # <<>> /\ s[Len(s)] = DOT THEN [i \in 1..(Len(s) - 1) |-> s[i]] ELSE s

Eligible(r, M) ==
    /\ r.Type = "A"
    /\ HasAlias(r)
    /\ StripOneDot(r.AliasTarget.DNSName) \notin DOMAIN M

PublicIndexes == {i \in 1..Len(hostedZones) : ~hostedZones[i].Config.PrivateZone}

NumPublic == Cardinality(PublicIndexes)

SoleZoneId == hostedZones[CHOOSE i \in PublicIndexes : TRUE].Id

\* the marking pass of this run has run, to its end or to an exception
MarkingEnded == pc = "delete" \/ raisedAt \in {"mark", "delete"} \/ (pc = "done" /\ fetchCalls = 1)

\* the marking pass of this run has run to its end
MarkingCompleted == MarkingEnded /\ raisedAt # "mark"

MainEnded == pc \in {"done", "crashed"}

Marked == Range(records_to_be_removed)

IsPrefix(s, t) == Len(s) <= Len(t) /\ \A i \in 1..Len(s) : s[i] = t[i]

ExpectedRequests ==
    [i \in 1..Len(records_to_be_removed) |->
        [HostedZoneId |-> SoleZoneId,
         ChangeBatch |-> [Changes |-> <<[Action |-> "DELETE",
                                         ResourceRecordSet |-> records_to_be_removed[i]]>>]]]

-----------------------------------------------------------------------------
(* Properties *)

\* C1: once main's marking pass has run over the fetched records, a fetched record
\* is marked for deletion if and only if its type is "A", it has an AliasTarget,
\* and the target's DNS name without one trailing "." is no key of lb_map.
\* Violated by the code: line 110 raises KeyError on an "A" record without
\* AliasTarget, and the eligible records after it are never marked.
C1_MarkedIffEligible ==
    MarkingEnded =>
        \A i \in 1..Len(records) :
            (records[i] \in Marked) <=> Eligible(records[i], lb_map)

\* C8: when the fetched records hold an "A" record without AliasTarget, the marking
\* pass ends without an exception, that record is not marked, every orphaned alias
\* "A" record is marked, and when main has ended each of them has been requested
\* for deletion.
\* Violated by the code: KeyError at line 110 leaves main before any delete.
C8_NonAliasSkipped ==
    (MarkingEnded /\ \E i \in 1..Len(records) : records[i].Type = "A" /\ ~HasAlias(records[i])) =>
        /\ raisedAt # "mark"
        /\ \A i \in 1..Len(records) :
              /\ (records[i].Type = "A" /\ ~HasAlias(records[i])) => records[i] \notin Marked
              /\ Eligible(records[i], lb_map) => records[i] \in Marked
        /\ (MainEnded /\ raisedAt = "none") => Len(requests) = Len(records_to_be_removed)

\* C3: when a load-balancer query raised, lb_map is empty, and once the marking
\* pass has run every fetched "A" record with an AliasTarget is marked.
\* Violated by the code through the KeyError of C8: the alias records behind an
\* "A" record without AliasTarget are not marked.
C3_FailedInventoryMarksAll ==
    (pc # "lb" /\ lbError # "none") =>
        /\ lb_map = EmptyMap
        /\ MarkingEnded =>
              \A i \in 1..Len(records) :
                  (records[i].Type = "A" /\ HasAlias(records[i])) => records[i] \in Marked

\* The first half of C3 alone: a failed inventory query never leaves a partial map.
C3_EmptyMapOnFailure == (pc # "lb" /\ lbError # "none") => lb_map = EmptyMap

\* C1 on the zones where the KeyError of C8 cannot happen
C1_WithoutPlainA ==
    (MarkingEnded /\ \A i \in 1..Len(records) : records[i].Type = "A" => HasAlias(records[i])) =>
        \A i \in 1..Len(records) :
            (records[i] \in Marked) <=> Eligible(records[i], lb_map)


\* C2: when the zone listing returned and the number of zones whose PrivateZone
\* flag is false is not 1, main has called the record-set fetcher zero times, has
\* issued no change request and raises nothing, and past the gate it has returned;
\* when that number is 1, whatever the number of private zones, main past the gate
\* is at the fetch of that zone's records or has fetched them.
C2_ZoneCountGate ==
    zonesOutcome = "ok" =>
        IF NumPublic # 1
           THEN /\ fetchCalls = 0
                /\ requests = <<>>
                /\ raisedAt = "none"
                /\ pc \in {"gate", "done"}
           ELSE pc # "gate" =>
                /\ pc = "fetch" \/ fetchCalls = 1
                /\ public_zone.Id = SoleZoneId

\* C2 happens: two public zones were listed, the zone holds an orphaned alias
\* record, and main has returned
C2_Witness ==
    /\ zonesOutcome = "ok"
    /\ NumPublic = 2
    /\ pc = "done"
    /\ \E i \in 1..Len(zone) : Eligible(zone[i], lb_map)

\* C4: when both inventory queries succeeded, the keys of lb_map are the DNS names
\* of the modern load balancers whose state code is "active" and the DNS names of
\* all legacy load balancers, and the entry of every legacy DNS name (also one that
\* is a modern load balancer too) has type "classic".
C4_MergedInventory ==
    (pc # "lb" /\ lbError = "none") =>
        /\ DOMAIN lb_map =
              {modernLBs[i].DNSName : i \in {j \in 1..Len(modernLBs) : modernLBs[j].State.Code = "active"}}
              \cup {legacyLBs[i].DNSName : i \in 1..Len(legacyLBs)}
        /\ \A i \in 1..Len(legacyLBs) : lb_map[legacyLBs[i].DNSName].type = "classic"
        /\ \A k \in DOMAIN lb_map :
              (\A i \in 1..Len(legacyLBs) : legacyLBs[i].DNSName # k) => lb_map[k].type # "classic"

\* C4 happens: a DNS name of an active modern load balancer is a legacy one too,
\* and a modern load balancer in another state is no key
C4_Witness ==
    /\ pc # "lb"
    /\ lbError = "none"
    /\ \E i \in 1..Len(modernLBs), j \in 1..Len(legacyLBs) :
          /\ modernLBs[i].State.Code = "active"
          /\ modernLBs[i].DNSName = legacyLBs[j].DNSName
    /\ \E i \in 1..Len(modernLBs) :
          /\ modernLBs[i].State.Code # "active"
          /\ modernLBs[i].DNSName \notin DOMAIN lb_map

\* the record sets of pages 1..k-1 of the zone as it was fetched
PagesBefore(k) ==
    LET n == IF (k - 1) * PageSize < Len(zoneAtStart) THEN (k - 1) * PageSize ELSE Len(zoneAtStart)
    IN [i \in 1..n |-> zoneAtStart[i]]

\* C5 as claimed: when get_dns_records has returned, it returned the record sets of
\* pages 1..k-1 if page k failed, and those of all pages if no page failed.
C5_PartialOnFailure ==
    (fetchCalls = 1 /\ raisedAt # "fetch") =>
        records = IF fetchFail.page = 0 THEN zoneAtStart ELSE PagesBefore(fetchFail.page)

\* C5 as amended: when no page fails get_dns_records returns the record sets of all
\* pages in page order; when page k fails with a ClientError it returns the empty
\* list, whatever pages 1..k-1 held; a failure that is no ClientError is not caught
\* and leaves main.
C5_EmptyOnClientError ==
    fetchCalls = 1 =>
        CASE fetchFail.page = 0 -> raisedAt # "fetch" /\ records = zoneAtStart
          [] fetchFail.kind = "ClientError" -> raisedAt # "fetch" /\ records = <<>>
          [] OTHER -> raisedAt = "fetch" /\ pc = "crashed"

\* C5 happens: the second page failed with a ClientError after a first page that
\* held a record set
C5_Witness ==
    /\ fetchCalls = 1
    /\ fetchFail.page >= 2
    /\ fetchFail.kind = "ClientError"
    /\ PagesBefore(fetchFail.page) # <<>>
    /\ pc = "done"


\* C6: no failure of a remote call leaves main (main ends only by returning), and
\* when main has ended after a completed marking pass it has issued a change
\* request for every marked record, also for those behind a request that failed.
\* Violated by the code: change_resource_record_sets is called outside any try
\* block, and the handlers of lines 54 and 71 catch ClientError only.
C6_NoFailurePropagates ==
    /\ raisedAt \notin {"zones", "fetch", "delete"}
    /\ (MainEnded /\ MarkingCompleted) => Len(requests) = Len(records_to_be_removed)

\* C7: in a second run that follows a first run without a failing call, and in
\* which no call has failed, the marking pass marks nothing.
\* Violated by the code through the KeyError of C8: the first run ends at line 110
\* before it deletes anything, and the second run marks the same orphans again.
C7_SecondRunMarksNothing ==
    (run = "second" /\ firstRunClean /\ ~CallFailed /\ MarkingEnded) =>
        records_to_be_removed = <<>>

\* C7 on the zones where the KeyError of C8 cannot happen
C7_WithoutPlainA ==
    (/\ run = "second" /\ firstRunClean /\ ~CallFailed /\ MarkingEnded
     /\ \A i \in 1..Len(zoneAtStart) : zoneAtStart[i].Type = "A" => HasAlias(zoneAtStart[i])) =>
        records_to_be_removed = <<>>

\* the i-th change request returned with status 200
Status200(i) == i <= Len(responses) /\ responses[i] = 200

\* C9: change requests are issued only after the record listing and the marking
\* pass have completed; they are, in the order of the marked records (which is the
\* order of the fetched records), one DELETE change each with the sole public
\* zone's id and the fetched record; when main has ended there is one for every
\* marked record; and "Successfully removed" is printed for a record only when its
\* request returned status 200.
\* Violated by the code through the uncaught exception of C6: the marked records
\* behind a change request that raises get no request.
C9_OneRequestPerMarkedRecord ==
    /\ requests # <<>> => (fetchCalls = 1 /\ MarkingCompleted)
    /\ MarkingCompleted =>
          /\ records_to_be_removed = SelectSeq(records, LAMBDA r : r \in Marked)
          /\ IsPrefix(requests, ExpectedRequests)
          /\ MainEnded => requests = ExpectedRequests
    /\ \A k \in 1..Len(stdout) :
          stdout[k][1] = "Successfully removed DNS record" =>
              \E i \in 1..Len(requests) :
                  /\ requests[i].ChangeBatch.Changes[1].ResourceRecordSet.Name = stdout[k][2]
                  /\ Status200(i)

\* What the delete phase does in every run, a raising request included: the
\* requests issued are a prefix of the expected ones.
C9_RequestsArePrefix ==
    /\ requests # <<>> => (fetchCalls = 1 /\ MarkingCompleted)
    /\ MarkingCompleted =>
          /\ records_to_be_removed = SelectSeq(records, LAMBDA r : r \in Marked)
          /\ IsPrefix(requests, ExpectedRequests)
          /\ (MainEnded /\ raisedAt = "none") => requests = ExpectedRequests
    /\ \A k \in 1..Len(stdout) :
          stdout[k][1] = "Successfully removed DNS record" =>
              \E i \in 1..Len(requests) :
                  /\ requests[i].ChangeBatch.Changes[1].ResourceRecordSet.Name = stdout[k][2]
                  /\ Status200(i)

\* C10: every change request of a run is one DELETE change on a marked record; the
\* zone holds only record sets it held when the run started, unchanged and in
\* their order; and a record set whose type is not "A", or whose alias target
\* without one trailing "." is a key of lb_map, is still in the zone.
C10_OnlyMarkedRecordsDeleted ==
    /\ \A i \in 1..Len(requests) :
          /\ Len(requests[i].ChangeBatch.Changes) = 1
          /\ requests[i].ChangeBatch.Changes[1].Action = "DELETE"
          /\ requests[i].ChangeBatch.Changes[1].ResourceRecordSet \in Marked
    /\ zone = SelectSeq(zoneAtStart, LAMBDA r : r \in Range(zone))
    /\ \A i \in 1..Len(zoneAtStart) :
          LET r == zoneAtStart[i]
          IN (\/ r.Type # "A"
              \/ (HasAlias(r) /\ StripOneDot(r.AliasTarget.DNSName) \in DOMAIN lb_map))
                 => r \in Range(zone)

\* C10 happens: main has returned after a change request that deleted a record,
\* and the zone still holds an alias record it had to keep: one of another type
\* whose target is no load balancer, or an "A" alias of a known load balancer
C10_Witness ==
    /\ pc = "done"
    /\ \E i \in 1..Len(responses) : responses[i] = 200
    /\ \E i \in 1..Len(zone) :
          /\ HasAlias(zone[i])
          /\ \/ zone[i].Type # "A" /\ StripOneDot(zone[i].AliasTarget.DNSName) \notin DOMAIN lb_map
             \/ zone[i].Type = "A" /\ StripOneDot(zone[i].AliasTarget.DNSName) \in DOMAIN lb_map

====
